---------------------------- MODULE Spec2Model ----------------------------
(***************************************************************************)
(* Leave-Approval backend: the e-mail utility (server/app/utils/email.py)  *)
(* and the HTTP application wiring (server/app/main.py).                   *)
(*                                                                         *)
(* SpecMail  - the calls of send_leave_action_email and                    *)
(*             send_password_reset_otp, one step of the code per action.   *)
(* SpecToken - the same calls together with link visits and the clock.     *)
(* SpecHttp  - the route table and the middleware stack of main.py.        *)
(***************************************************************************)
EXTENDS Integers, Sequences, FiniteSets, TLC

VARIABLES
    EMAIL_HOST, EMAIL_USER, EMAIL_PASS,   \* email.py 33-36 (os.getenv)
    BACKEND_URL, FRONTEND_URL,            \* email.py 39-40
    env,                                  \* email.py 58-64: Jinja2 environment or None
    pc,                                   \* position in the running call
    fn,                                   \* the running function: "none", "leave", "otp"
    calls,                                \* number of calls made so far
    arg,                                  \* the argument as the caller passed it
    leave_dict,                           \* the dict, mutated in place by the call
    backend_url, frontend_url,            \* locals, email.py 80-86
    approval_token, rejection_token,      \* locals, email.py 116-117
    render_out,                           \* what Jinja2 gave, email.py 149-156
    amp_content, html_content,            \* locals, email.py 145-177
    text_content,                         \* local, email.py 189
    msg,                                  \* the EmailMessage being built
    server,                               \* the smtplib.SMTP session of this call
    exc,                                  \* the exception being propagated, or "none"
    result,                               \* what the call gave its caller
    db_reads,                             \* find_one calls made by the running call
    tokens,                               \* tokens issued by generate_approval_token
    clock,                                \* hours since start
    leaves,                               \* status of every leave record
    consumed,                             \* per token: how often it changed a leave, and whether within 24 hours of its issue
    last_visit,                           \* what the last link visit did
    auth_routes, leave_routes,            \* the routes of routes/auth.py, routes/leave.py
    static_dir,                           \* main.py 153: os.path.isdir(STATIC_CLIENT_DIR)
    stage,                                \* how far the request in hand has come
    request,                              \* the HTTP request in hand
    handler,                              \* the endpoint that served it
    call_next_response,                           \* main.py 41: the response call_next gave
    amp_response,                         \* the response add_amp_cors_headers returned
    response                              \* the response the client got

mailVars == <<pc, fn, calls, arg, leave_dict, backend_url, frontend_url,
              approval_token, rejection_token, render_out, amp_content, html_content,
              text_content, msg, server, exc, result, db_reads, tokens>>
cfgVars == <<EMAIL_HOST, EMAIL_USER, EMAIL_PASS, BACKEND_URL, FRONTEND_URL, env>>
tokenVars == <<clock, leaves, consumed, last_visit>>
appVars == <<auth_routes, leave_routes, static_dir>>
httpVars == <<appVars, stage, request, handler, call_next_response, amp_response, response>>
vars == <<cfgVars, mailVars, tokenVars, httpVars>>

(***************************************************************************)
(* Bounds of the model.                                                    *)
(***************************************************************************)
MaxCalls == 2
MaxTicks == 2
HoursPerTick == 12

(***************************************************************************)
(* Values.  Every Python value the model carries is a record [k, v]: k is  *)
(* its kind (or, for a literal, its text) and v a number telling values of *)
(* one kind apart.                                                         *)
(***************************************************************************)
Unset == "<unset>"                           \* os.getenv(...) returning None
Truthy(s) == s \notin {Unset, ""}            \* Python truth of an Optional[str]

Val(k, v) == [k |-> k, v |-> v]
None == Val("None", 0)
ObjectId(n) == Val("ObjectId", n)
\* str(x): the hex string of an ObjectId, and a string unchanged.
Str(x) == IF x.k = "ObjectId" THEN Val("str", x.v) ELSE x
NA == Val("N/A", 0)
Url(s) == Val(s, 0)

LeaveIds == {1}
ManagerIds == {11, 12}

NoContent == [src |-> "none", len |-> 0, unrendered |-> FALSE, links |-> <<>>]
NoMsg == [ctype |-> "none", headers |-> {}, payload |-> NoContent, parts |-> <<>>]
NoRender == [done |-> FALSE, raised |-> FALSE, amp |-> NoContent, html |-> NoContent]
NoResult == [kind |-> "pending", host |-> FALSE, user |-> FALSE, pass |-> FALSE]


(***************************************************************************)
(* Python dicts: functions from keys to values.                            *)
(***************************************************************************)
EmptyDict == [k \in {} |-> None]
Has(d, k) == k \in DOMAIN d
\* d.get(k): the value, or None when the key is absent.
Get(d, k) == IF Has(d, k) THEN d[k] ELSE None
\* d[k] = v, and d.update(e): the right operand of @@ gives way to the left.
Put(d, k, v) == (k :> v) @@ d
Update(d, e) == e @@ d

(***************************************************************************)
(* email.message.EmailMessage, as far as the two senders use it.           *)
(***************************************************************************)
Part(ctype, content) == [ctype |-> ctype, content |-> content]
TextType(subtype) == IF subtype = "html" THEN "text/html" ELSE "text/plain"
Maintype(m) == IF m.ctype = "multipart/alternative" THEN "multipart" ELSE "text"

\* msg[name] = value; the Content-Type header decides the message's type.
SetHeader(m, name, value) ==
    [m EXCEPT !.headers = @ \cup {name},
              !.ctype = IF name = "Content-Type" THEN value ELSE @]

\* msg.set_content(text): ContentManager.set_content raises TypeError
\* ("set_content not valid on multipart") when the message's Content-Type is
\* already a multipart type; otherwise the content replaces the payload.
SetContent(m, content, subtype) ==
    IF Maintype(m) = "multipart"
    THEN [ok |-> FALSE, msg |-> m]
    ELSE [ok |-> TRUE,
          msg |-> [m EXCEPT !.ctype = TextType(subtype),
                            !.headers = @ \cup {"Content-Type", "MIME-Version"},
                            !.payload = content,
                            !.parts = <<>>]]

\* msg.add_alternative(content, subtype=...): a message that is not yet
\* multipart/alternative becomes one, its content the first part; the new
\* content is appended as a further part.
AddAlternative(m, content, subtype) ==
    LET base == IF m.ctype = "multipart/alternative"
                THEN m
                ELSE [m EXCEPT !.ctype = "multipart/alternative",
                               !.parts = <<Part(m.ctype, m.payload)>>,
                               !.payload = NoContent]
    IN  [base EXCEPT !.parts = Append(@, Part(TextType(subtype), content))]

\* MIMEText(content, "html"); set_type("text/x-amp-html"); msg.attach(part)
AttachAmp(m, content) ==
    [m EXCEPT !.parts = Append(@, Part("text/x-amp-html", content))]

PartTypes(m) == [i \in 1..Len(m.parts) |-> m.parts[i].ctype]

(***************************************************************************)
(* The bodies the code composes.  A body is known by where it came from    *)
(* and by the links it offers.                                             *)
(***************************************************************************)
Link(base, leave, action, token) ==
    [base |-> base, leave |-> Str(leave), action |-> action, token |-> Str(token)]

\* email.py 189-204: the plain-text part; one link, to .../approve.
TextContent(d, url) ==
    [src |-> "inline", len |-> 400, unrendered |-> FALSE,
     links |-> <<Link(url, Get(d, "_id"), "approve", Get(d, "approval_token"))>>]

\* As FallbackHtml, with the two tokens exchanged.
FallbackHtmlSwapped(d, url) ==
    [src |-> "fallback", len |-> 3000, unrendered |-> FALSE,
     links |-> <<Link(url, Get(d, "_id"), "approve", Get(d, "rejection_token")),
                 Link(url, Get(d, "_id"), "reject", Get(d, "approval_token"))>>]

\* email.py 338-399: the inline HTML, with an APPROVE and a REJECT anchor.
FallbackHtml(d, url) ==
    [src |-> "fallback", len |-> 3000, unrendered |-> FALSE,
     links |-> <<Link(url, Get(d, "_id"), "approve", Get(d, "approval_token")),
                 Link(url, Get(d, "_id"), "reject", Get(d, "rejection_token"))>>]

\* email.py 334-404: returns (amp_content, html_content), the same string twice.
get_fallback_email_content(d, url) ==
    [amp |-> FallbackHtml(d, url), html |-> FallbackHtml(d, url)]

\* What Jinja2 can give for the two templates (the templates themselves are
\* data files): it raises, or yields an AMP text of some length that may
\* still hold the text "{{ leave.", and an HTML text.
AmpLengths == {0, 99, 100, 150}
HtmlLengths == {150}
MIN_AMP_LEN == 100
Rendered(n, u) == [src |-> "template", len |-> n, unrendered |-> u, links |-> <<>>]

\* As AmpRejected, with <= for <.
AmpRejectedOffByOne(amp) ==
    IF amp.len = 0 \/ amp.len <= MIN_AMP_LEN THEN TRUE ELSE amp.unrendered

\* email.py 160-165: the two tests that send a rendered AMP text to the fallback.
AmpRejected(amp) ==
    IF amp.len = 0 \/ amp.len < MIN_AMP_LEN THEN TRUE ELSE amp.unrendered

(***************************************************************************)
(* generate_approval_token (utils/tokens.py): issues a fresh token bound   *)
(* to a leave, a manager and an action, valid for the given hours.         *)
(***************************************************************************)
TokenValue(n) == Val("token", n)
generate_approval_token(leave_id, manager_id, action, hours) ==
    [id |-> Len(tokens) + 1, leave_id |-> leave_id, manager_id |-> manager_id,
     action |-> action, hours |-> hours, issued_at |-> clock,
     used |-> FALSE, call |-> calls]

\* Twice the validity.
TOKEN_HOURS_DOUBLED == 24 + 24
\* email.py 116-117: the validity asked for, in hours.
TOKEN_HOURS == 24


(***************************************************************************)
(* What the callers pass.                                                  *)
(***************************************************************************)
Absent == Val("absent", 0)
Email(n) == Val("email", n)
Opt(k, v) == IF v = Absent THEN EmptyDict ELSE (k :> v)

IdInputs == {Absent} \cup {ObjectId(n) : n \in LeaveIds} \cup {Str(ObjectId(n)) : n \in LeaveIds}
ManagerInputs == {Absent, Str(ObjectId(11))}
EmailInputs == {Absent, Email(11)}
DaysInputs == {"none", "days"}

LeaveInput(id, mgr, mail, days) ==
    Opt("_id", id) @@ Opt("manager_id", mgr) @@ Opt("manager_email", mail)
    @@ (IF days = "none" THEN EmptyDict ELSE (days :> Val("int", 3)))

OtpInput == ("recipient_email" :> Email(1)) @@ ("otp" :> Val("otp", 1))

\* The document find_one returns for a leave: its ids are ObjectIds.
FreshLeave(n, m) ==
    ("_id" :> ObjectId(n)) @@ ("manager_id" :> ObjectId(m)) @@ ("employee_id" :> ObjectId(21))

(***************************************************************************)
(* Control: raising, the except clauses, returning.                        *)
(***************************************************************************)
\* As ConfigComplete, the password left out.
ConfigCompleteNoPass == Truthy(EMAIL_HOST) /\ Truthy(EMAIL_USER)

\* email.py 74 and 247: all([EMAIL_HOST, EMAIL_USER, EMAIL_PASS])
ConfigComplete == Truthy(EMAIL_HOST) /\ Truthy(EMAIL_USER) /\ Truthy(EMAIL_PASS)

Raise(e) == pc' = "except" /\ exc' = e

Returned(kind) ==
    [kind |-> kind, host |-> Truthy(EMAIL_HOST), user |-> Truthy(EMAIL_USER),
     pass |-> Truthy(EMAIL_PASS)]

\* An except clause that swallows in both functions.
AlwaysSwallow(f) == "None"
\* An except clause that re-raises in both functions.
AlwaysReraise(f) == "raised"

\* email.py 234-237: send_leave_action_email logs and falls off the end;
\* email.py 329-331: send_password_reset_otp logs and re-raises.
ExceptOutcome(f) == IF f = "leave" THEN "None" ELSE "raised"

\* The locals of a call; they end with it.
locals == <<backend_url, frontend_url, approval_token, rejection_token,
            render_out, amp_content, html_content, text_content, msg>>
DropLocals ==
    /\ backend_url' = None /\ frontend_url' = None
    /\ approval_token' = None /\ rejection_token' = None
    /\ render_out' = NoRender
    /\ amp_content' = NoContent /\ html_content' = NoContent
    /\ text_content' = NoContent
    /\ msg' = NoMsg

Event(op, ok, m) == [op |-> op, ok |-> ok, msg |-> m]
Ops(log) == [i \in 1..Len(log) |-> log[i].op]

(***************************************************************************)
(* Entry of the two functions.                                             *)
(***************************************************************************)
Enter(f, a) ==
    /\ pc = "idle"
    /\ calls < MaxCalls
    /\ calls' = calls + 1
    /\ fn' = f
    /\ arg' = a
    /\ leave_dict' = a
    /\ pc' = "check_config"
    /\ UNCHANGED locals
    /\ server' = <<>>
    /\ exc' = "none"
    /\ result' = NoResult
    /\ UNCHANGED <<db_reads, tokens>>

\* email.py 66: the caller passes its dict.
CallSendLeaveActionEmail ==
    /\ \E id \in IdInputs, mgr \in ManagerInputs, mail \in EmailInputs, days \in DaysInputs :
          Enter("leave", LeaveInput(id, mgr, mail, days))
    /\ UNCHANGED <<cfgVars, tokenVars, httpVars>>

\* email.py 66, called for a leave as the application stores it: with its id,
\* its manager and the manager's address.
StoredLeaveInputs ==
    {LeaveInput(id, Str(ObjectId(11)), Email(11), "days") :
        id \in {Str(ObjectId(n)) : n \in LeaveIds}}

CallSendForStoredLeave ==
    /\ \E a \in StoredLeaveInputs : Enter("leave", a)
    /\ UNCHANGED <<cfgVars, tokenVars, httpVars>>

\* email.py 243
CallSendPasswordResetOtp ==
    /\ Enter("otp", OtpInput)
    /\ UNCHANGED <<cfgVars, tokenVars, httpVars>>


(***************************************************************************)
(* send_leave_action_email, step by step.                                  *)
(***************************************************************************)
callVars == <<fn, calls, arg>>
otherVars == <<cfgVars, tokenVars, httpVars>>

\* email.py 68-88: the configuration check, then the URLs the mail will use.
CheckConfigLeave ==
    /\ pc = "check_config" /\ fn = "leave"
    /\ IF ~ConfigComplete
       THEN /\ result' = Returned("error")
            /\ pc' = "done"
            /\ UNCHANGED <<backend_url, frontend_url>>
       ELSE /\ IF ~Truthy(BACKEND_URL) \/ ~Truthy(FRONTEND_URL)
               THEN /\ backend_url' = Url("http://localhost:8000")
                    /\ frontend_url' = Url("http://localhost:5173")
               ELSE /\ backend_url' = Url(BACKEND_URL)
                    /\ frontend_url' = Url(FRONTEND_URL)
            /\ pc' = "db_read"
            /\ UNCHANGED result
    /\ UNCHANGED <<callVars, leave_dict, approval_token, rejection_token,
                   render_out, amp_content, html_content, text_content, msg, server, exc,
                   db_reads, tokens, otherVars>>

DbOutcomes ==
    {[kind |-> k, m |-> 0] : k \in {"import_error", "find_error", "not_found"}}
    \cup {[kind |-> "found", m |-> m] : m \in ManagerIds}

\* email.py 90-109: import the collection; when the dict has an '_id', read
\* the stored leave and overwrite the dict with it, ids as strings.
DbRead ==
    /\ pc = "db_read" /\ fn = "leave"
    /\ \E out \in DbOutcomes :
          IF out.kind = "import_error"
          THEN /\ Raise("ImportError")
               /\ UNCHANGED <<leave_dict, db_reads>>
          ELSE IF ~Has(leave_dict, "_id")
          THEN /\ pc' = "gen_approve"
               /\ UNCHANGED <<leave_dict, db_reads, exc>>
          ELSE /\ db_reads' = db_reads + 1
               /\ IF out.kind = "find_error"
                  THEN Raise("PyMongoError") /\ UNCHANGED leave_dict
                  ELSE /\ pc' = "gen_approve"
                       /\ UNCHANGED exc
                       /\ IF out.kind = "not_found"
                          THEN UNCHANGED leave_dict
                          ELSE LET fresh_leave == FreshLeave(leave_dict["_id"].v, out.m)
                                   d1 == Update(leave_dict, fresh_leave)
                                   d2 == Put(d1, "_id", Str(fresh_leave["_id"]))
                                   d3 == Put(d2, "manager_id", Str(fresh_leave["manager_id"]))
                               IN  leave_dict' =
                                       Put(d3, "employee_id", Str(fresh_leave["employee_id"]))
    /\ UNCHANGED <<callVars, backend_url, frontend_url, approval_token,
                   rejection_token, render_out, amp_content, html_content, text_content,
                   msg, server, result, tokens, otherVars>>

\* email.py 111-116: leave_id, manager_id, then the approval token.
GenApproveToken ==
    /\ pc = "gen_approve" /\ fn = "leave"
    /\ IF ~Has(leave_dict, "_id") \/ ~Has(leave_dict, "manager_id")
       THEN /\ Raise("KeyError")
            /\ UNCHANGED <<approval_token, tokens>>
       ELSE \E ok \in BOOLEAN :
               IF ok
               THEN LET leave_id == Str(leave_dict["_id"])
                        manager_id == Str(leave_dict["manager_id"])
                        t == generate_approval_token(leave_id, manager_id,
                                                     "approve", TOKEN_HOURS)
                    IN  /\ tokens' = Append(tokens, t)
                        /\ approval_token' = TokenValue(t.id)
                        /\ pc' = "gen_reject"
                        /\ UNCHANGED exc
               ELSE /\ Raise("TokenError")
                    /\ UNCHANGED <<approval_token, tokens>>
    /\ UNCHANGED <<callVars, leave_dict, backend_url, frontend_url,
                   rejection_token, render_out, amp_content, html_content, text_content,
                   msg, server, result, db_reads, otherVars>>

\* email.py 124-128: total_days and days for the templates.
WithDays(d) ==
    IF Has(d, "days") /\ ~Has(d, "total_days") THEN Put(d, "total_days", d["days"])
    ELSE IF ~Has(d, "total_days") /\ ~Has(d, "days")
         THEN Put(Put(d, "total_days", NA), "days", NA)
         ELSE d

\* email.py 117-132: the rejection token, then the dict gets the tokens, the
\* day fields and the URLs.
GenRejectToken ==
    /\ pc = "gen_reject" /\ fn = "leave"
    /\ \E ok \in BOOLEAN :
          IF ok
          THEN LET leave_id == Str(leave_dict["_id"])
                   manager_id == Str(leave_dict["manager_id"])
                   t == generate_approval_token(leave_id, manager_id,
                                                "reject", TOKEN_HOURS)
                   d1 == Put(leave_dict, "approval_token", approval_token)
                   d2 == Put(d1, "rejection_token", TokenValue(t.id))
                   d3 == WithDays(d2)
                   d4 == Put(d3, "backend_url", backend_url)
               IN  /\ tokens' = Append(tokens, t)
                   /\ rejection_token' = TokenValue(t.id)
                   /\ leave_dict' = Put(d4, "frontend_url", frontend_url)
                   /\ pc' = "render"
                   /\ UNCHANGED exc
          ELSE /\ Raise("TokenError")
               /\ UNCHANGED <<rejection_token, tokens, leave_dict>>
    /\ UNCHANGED <<callVars, backend_url, frontend_url, approval_token,
                   render_out, amp_content, html_content, text_content, msg, server,
                   result, db_reads, otherVars>>

\* email.py 144-177: render both templates; on no environment, on any
\* exception, or on an AMP text that fails validation, use the inline
\* content for both.
RenderContent ==
    /\ pc = "render" /\ fn = "leave"
    /\ LET fallback == get_fallback_email_content(leave_dict, backend_url)
       IN  IF env
           THEN \E raises \in BOOLEAN, n \in AmpLengths, u \in BOOLEAN, h \in HtmlLengths :
                   IF raises
                   THEN /\ render_out' = [done |-> TRUE, raised |-> TRUE,
                                          amp |-> NoContent, html |-> NoContent]
                        /\ amp_content' = fallback.amp
                        /\ html_content' = fallback.html
                   ELSE /\ render_out' = [done |-> TRUE, raised |-> FALSE,
                                          amp |-> Rendered(n, u), html |-> Rendered(h, FALSE)]
                        /\ IF AmpRejected(Rendered(n, u))
                           THEN /\ amp_content' = fallback.amp
                                /\ html_content' = fallback.html
                           ELSE /\ amp_content' = Rendered(n, u)
                                /\ html_content' = Rendered(h, FALSE)
           ELSE /\ render_out' = [NoRender EXCEPT !.done = TRUE]
                /\ amp_content' = fallback.amp
                /\ html_content' = fallback.html
    /\ pc' = "build"
    /\ UNCHANGED <<callVars, leave_dict, backend_url, frontend_url,
                   approval_token, rejection_token, text_content, msg, server,
                   exc, result, db_reads, tokens, otherVars>>

\* email.py 179-186: the headers, Content-Type: multipart/alternative last.
LeaveHeaders(m) ==
    LET h1 == SetHeader(m, "Subject", "subject")
        h2 == SetHeader(h1, "From", "EMAIL_USER")
        h3 == SetHeader(h2, "To", "manager_email")
        h4 == SetHeader(h3, "X-Amp-Source-Origin", "FRONTEND_URL")
    IN  SetHeader(h4, "Content-Type", "multipart/alternative")

\* email.py 179-222: the message: headers, the plain text as content, the
\* HTML as an alternative, the AMP part attached (or, should building the
\* MIME part fail, added as a further alternative).
BuildMessage ==
    /\ pc = "build" /\ fn = "leave"
    /\ IF ~Has(leave_dict, "manager_email")
       THEN /\ Raise("KeyError")
            /\ msg' = SetHeader(SetHeader(NoMsg, "Subject", "subject"), "From", "EMAIL_USER")
            /\ UNCHANGED text_content
       ELSE LET text == TextContent(leave_dict, backend_url)
                r == SetContent(LeaveHeaders(NoMsg), text, "plain")
            IN  /\ text_content' = text
                /\ IF ~r.ok
                   THEN Raise("TypeError") /\ msg' = r.msg
                   ELSE /\ \E mime_ok \in BOOLEAN :
                              LET m2 == AddAlternative(r.msg, html_content, "html")
                              IN  msg' = IF mime_ok
                                         THEN AttachAmp(m2, amp_content)
                                         ELSE AddAlternative(m2, amp_content, "html")
                        /\ pc' = "smtp_connect"
                        /\ UNCHANGED exc
    /\ UNCHANGED <<callVars, leave_dict, backend_url, frontend_url,
                   approval_token, rejection_token, render_out, amp_content, html_content,
                   server, result, db_reads, tokens, otherVars>>


(***************************************************************************)
(* send_password_reset_otp, up to the SMTP session.                        *)
(***************************************************************************)
\* email.py 245-257: a missing setting raises.
CheckConfigOtp ==
    /\ pc = "check_config" /\ fn = "otp"
    /\ IF ~ConfigComplete
       THEN Raise("Exception")
       ELSE pc' = "otp_build" /\ UNCHANGED exc
    /\ UNCHANGED <<callVars, leave_dict, backend_url, frontend_url,
                   approval_token, rejection_token, render_out, amp_content, html_content,
                   text_content, msg, server, result, db_reads, tokens, otherVars>>

OtpBody(src) == [src |-> src, len |-> 300, unrendered |-> FALSE, links |-> <<>>]

\* email.py 259-319: subject, sender, recipient, the text, the HTML alternative.
BuildOtpMessage ==
    /\ pc = "otp_build" /\ fn = "otp"
    /\ LET h1 == SetHeader(NoMsg, "Subject", "subject")
           h2 == SetHeader(h1, "From", "EMAIL_USER")
           h3 == SetHeader(h2, "To", "recipient_email")
           r == SetContent(h3, OtpBody("otp_text"), "plain")
       IN  /\ text_content' = OtpBody("otp_text")
           /\ html_content' = OtpBody("otp_html")
           /\ IF ~r.ok
              THEN Raise("TypeError") /\ msg' = r.msg
              ELSE /\ msg' = AddAlternative(r.msg, OtpBody("otp_html"), "html")
                   /\ pc' = "smtp_connect"
                   /\ UNCHANGED exc
    /\ UNCHANGED <<callVars, leave_dict, backend_url, frontend_url,
                   approval_token, rejection_token, render_out, amp_content, server,
                   result, db_reads, tokens, otherVars>>

(***************************************************************************)
(* The SMTP session both functions open:                                   *)
(*     with smtplib.SMTP(EMAIL_HOST, EMAIL_PORT) as server:                *)
(*         server.starttls(); server.login(...); server.send_message(msg)  *)
(* Each step may fail; leaving the with block, either way, ends the        *)
(* session.                                                                *)
(***************************************************************************)
smtpFrame == <<callVars, leave_dict, backend_url, frontend_url, approval_token,
               rejection_token, render_out, amp_content, html_content, text_content, msg,
               result, db_reads, tokens, otherVars>>

SmtpStep(op, next, m) ==
    /\ \E ok \in BOOLEAN :
          IF ok
          THEN /\ server' = IF next = "return"
                            THEN server \o <<Event(op, TRUE, m), Event("quit", TRUE, NoMsg)>>
                            ELSE Append(server, Event(op, TRUE, m))
               /\ pc' = next
               /\ UNCHANGED exc
          ELSE /\ server' = IF op = "connect"
                            THEN Append(server, Event(op, FALSE, m))
                            ELSE server \o <<Event(op, FALSE, m), Event("quit", TRUE, NoMsg)>>
               /\ Raise("SMTPException")
    /\ UNCHANGED smtpFrame

\* email.py 224 and 321
SmtpConnect ==
    /\ pc = "smtp_connect"
    /\ SmtpStep("connect", "smtp_starttls", NoMsg)
\* email.py 225 and 322
SmtpStartTls ==
    /\ pc = "smtp_starttls"
    /\ SmtpStep("starttls", "smtp_login", NoMsg)
\* email.py 226 and 323
SmtpLogin ==
    /\ pc = "smtp_login"
    /\ SmtpStep("login", "smtp_send", NoMsg)
\* email.py 227 and 325
SmtpSendMessage ==
    /\ pc = "smtp_send"
    /\ SmtpStep("send_message", "return", msg)

\* email.py 229-232 and 328: the function falls off its end.
ReturnNormally ==
    /\ pc = "return"
    /\ result' = Returned("None")
    /\ pc' = "done"
    /\ DropLocals
    /\ UNCHANGED <<callVars, leave_dict, server, exc, db_reads, tokens, otherVars>>

\* email.py 234-237 and 329-331: the except clause of the running function.
ExceptHandler ==
    /\ pc = "except"
    /\ result' = Returned(ExceptOutcome(fn))
    /\ pc' = "done"
    /\ DropLocals
    /\ UNCHANGED <<callVars, leave_dict, server, exc, db_reads, tokens, otherVars>>

\* The caller has taken the outcome; nothing of the call is left but what it
\* wrote to the token store.
CallerGoesOn ==
    /\ pc = "done"
    /\ pc' = "idle" /\ fn' = "none"
    /\ arg' = EmptyDict /\ leave_dict' = EmptyDict
    /\ server' = <<>> /\ exc' = "none" /\ result' = NoResult
    /\ db_reads' = 0
    /\ UNCHANGED <<calls, locals, tokens, otherVars>>

\* The steps of send_leave_action_email before its SMTP session.
LeaveSteps ==
    \/ CheckConfigLeave
    \/ DbRead
    \/ GenApproveToken
    \/ GenRejectToken
    \/ RenderContent
    \/ BuildMessage
    \/ ExceptHandler
    \/ CallerGoesOn

NextMail ==
    \/ CallSendLeaveActionEmail
    \/ CheckConfigLeave
    \/ DbRead
    \/ GenApproveToken
    \/ GenRejectToken
    \/ RenderContent
    \/ BuildMessage
    \/ CallSendPasswordResetOtp
    \/ CheckConfigOtp
    \/ BuildOtpMessage
    \/ SmtpConnect
    \/ SmtpStartTls
    \/ SmtpLogin
    \/ SmtpSendMessage
    \/ ReturnNormally
    \/ ExceptHandler
    \/ CallerGoesOn

(***************************************************************************)
(* Initial states.                                                         *)
(***************************************************************************)
SettingValues == {Unset, "", "set"}
\* os.getenv(name, default): never None, possibly empty.
UrlSettings == {<<"https://backend", "https://frontend">>, <<"https://backend", "">>}

InitCfg ==
    /\ EMAIL_HOST \in SettingValues
    /\ EMAIL_USER \in SettingValues
    /\ EMAIL_PASS \in SettingValues
    /\ \E u \in UrlSettings : BACKEND_URL = u[1] /\ FRONTEND_URL = u[2]
    /\ env \in BOOLEAN

InitCall ==
    /\ pc = "idle" /\ fn = "none" /\ calls = 0
    /\ arg = EmptyDict /\ leave_dict = EmptyDict
    /\ backend_url = None /\ frontend_url = None
    /\ approval_token = None /\ rejection_token = None
    /\ render_out = NoRender
    /\ amp_content = NoContent /\ html_content = NoContent
    /\ text_content = NoContent
    /\ msg = NoMsg
    /\ server = <<>>
    /\ exc = "none"
    /\ result = NoResult
    /\ db_reads = 0
    /\ tokens = <<>>


InitToken ==
    /\ clock = 0
    /\ leaves = [n \in LeaveIds |-> "pending"]
    /\ consumed = <<>>
    /\ last_visit = "none"

InitNoRequest ==
    /\ auth_routes = {} /\ leave_routes = {}
    /\ static_dir = FALSE
    /\ stage = "idle" /\ request = <<>> /\ handler = <<>> /\ call_next_response = <<>>
    /\ amp_response = <<>> /\ response = <<>>

InitMail == InitCfg /\ InitCall /\ InitToken /\ InitNoRequest
SpecMail == InitMail /\ [][NextMail]_vars


(***************************************************************************)
(* The emailed links (routes/leave.py, utils/tokens.py): a visit presents  *)
(* a token for a leave and an action.  The token is accepted when it was   *)
(* issued for that leave and action, has not been used and has not         *)
(* expired; an accepted token is marked used and the leave takes the new   *)
(* status.                                                                 *)
(***************************************************************************)
TokenOf(id) == tokens[id]
\* How often a token has changed a leave.
Uses(id) == IF id \in DOMAIN consumed THEN consumed[id].n ELSE 0
Issued(id) == id \in 1..Len(tokens)

TokenValid(id, n, action) ==
    /\ Issued(id)
    /\ ~TokenOf(id).used
    /\ clock < TokenOf(id).issued_at + TokenOf(id).hours
    /\ TokenOf(id).leave_id = Str(ObjectId(n))
    /\ TokenOf(id).action = action

StatusAfter(action) == IF action = "approve" THEN "approved" ELSE "rejected"

\* What a visit did: it changed the leave, or it was refused, the token
\* having been used before, having expired, or not fitting the link.
VisitOutcome(id, n, action) ==
    IF TokenValid(id, n, action) THEN "changed"
    ELSE IF TokenOf(id).used THEN "refused_used"
    ELSE IF clock >= TokenOf(id).issued_at + TokenOf(id).hours THEN "refused_expired"
    ELSE "refused_other"

VisitLink ==
    /\ pc = "idle"
    /\ \E id \in 1..Len(tokens), n \in LeaveIds, action \in {"approve", "reject"} :
          /\ last_visit' = VisitOutcome(id, n, action)
          /\ IF TokenValid(id, n, action)
             THEN /\ leaves' = [leaves EXCEPT ![n] = StatusAfter(action)]
                  /\ tokens' = [tokens EXCEPT ![id].used = TRUE]
                  /\ consumed' = (id :> [n |-> Uses(id) + 1,
                                         in_time |-> clock < TokenOf(id).issued_at + 24])
                               @@ consumed
             ELSE UNCHANGED <<leaves, tokens, consumed>>
    /\ UNCHANGED <<clock, cfgVars, httpVars, pc, fn, calls, arg, leave_dict,
                   backend_url, frontend_url, approval_token, rejection_token,
                   render_out, amp_content, html_content, text_content, msg,
                   server, exc, result, db_reads>>

\* Time passes.
Tick ==
    /\ pc = "idle"
    /\ clock < MaxTicks * HoursPerTick
    /\ clock' = clock + HoursPerTick
    /\ UNCHANGED <<leaves, consumed, last_visit, cfgVars, mailVars, httpVars>>

NextToken == CallSendForStoredLeave \/ LeaveSteps \/ VisitLink \/ Tick

InitTokenCfg ==
    /\ EMAIL_HOST = "set" /\ EMAIL_USER = "set" /\ EMAIL_PASS = "set"
    /\ BACKEND_URL = "https://backend" /\ FRONTEND_URL = "https://frontend"
    /\ env = FALSE

InitTokenSpec == InitTokenCfg /\ InitCall /\ InitToken /\ InitNoRequest
SpecToken == InitTokenSpec /\ [][NextToken]_vars

(***************************************************************************)
(* main.py: the route table and the middleware stack.                      *)
(*                                                                         *)
(* A path is the sequence of its segments: "/" is <<"">>, "/leave/" is     *)
(* <<"leave", "">>, "/api/leave/1/approve" is <<"api","leave","1",...>>.   *)
(* In a route pattern "{}" stands for a path parameter (one non-empty      *)
(* segment) and "{path}" for a ":path" parameter (all that is left).       *)
(* A text (a header or query value) is a sequence of pieces, a percent     *)
(* escape being one piece.                                                 *)
(***************************************************************************)
Route(router, name, methods, pattern) ==
    [router |-> router, name |-> name, methods |-> methods, pattern |-> pattern,
     mount |-> "app"]

\* The routes routes/auth.py and routes/leave.py may declare, in their order.
AuthUniverse ==
    <<Route("auth", "login", {"POST"}, <<"login">>),
      Route("auth", "forgot_password", {"POST"}, <<"forgot-password">>),
      Route("auth", "me", {"GET"}, <<"me">>)>>
\* The two links of the mail are GET routes of the leave router.
LeaveLinkRoutes ==
    <<Route("leave", "approve_link", {"GET"}, <<"{}", "approve">>),
      Route("leave", "reject_link", {"GET"}, <<"{}", "reject">>)>>
LeaveUniverse ==
    <<Route("leave", "submit", {"POST"}, <<"">>),
      Route("leave", "approve_form", {"POST"}, <<"{}", "approve">>)>>

Range(seq) == {seq[i] : i \in 1..Len(seq)}
InOrder(universe, chosen) == SelectSeq(universe, LAMBDA r : r \in chosen)

\* include_router(router, prefix=...): every route of the router, in its
\* order, its path behind the prefix.
IncludeRouter(routes, prefix, mount) ==
    [i \in 1..Len(routes) |->
        [routes[i] EXCEPT !.pattern = prefix \o @, !.mount = mount]]

\* main.py 27: FastAPI() registers its documentation routes first.
DocsRoutes ==
    <<Route("app", "openapi", {"GET"}, <<"openapi.json">>),
      Route("app", "swagger_ui_html", {"GET"}, <<"docs">>),
      Route("app", "redoc_html", {"GET"}, <<"redoc">>)>>

AuthRouter == InOrder(AuthUniverse, auth_routes)
LeaveRouter == LeaveLinkRoutes \o InOrder(LeaveUniverse, leave_routes)

\* main.py 117-121: api_router, with both routers included.
ApiRouter ==
    IncludeRouter(AuthRouter, <<"auth">>, "api")
    \o IncludeRouter(LeaveRouter, <<"leave">>, "api")

\* main.py 131-149
HealthRoutes ==
    <<Route("app", "health_check", {"GET"}, <<"health">>),
      Route("app", "api_health_check", {"GET"}, <<"api", "health">>),
      Route("app", "list_routes", {"GET"}, <<"debug", "routes">>)>>

\* main.py 153-154: the mount, which takes every method.
AssetsMount ==
    IF static_dir
    THEN <<Route("app", "assets", {"GET", "POST", "OPTIONS"}, <<"assets", "{path}">>)>>
    ELSE <<>>

\* main.py 156 and 165
RootRoute == Route("app", "root", {"GET"}, <<"">>)
SpaFallback == Route("app", "spa_fallback", {"GET"}, <<"{path}">>)

\* The routes every request is to reach before the fallback.
RoutesBeforeFallback ==
    IncludeRouter(ApiRouter, <<"api">>, "api")
    \o IncludeRouter(AuthRouter, <<"auth">>, "direct")
    \o IncludeRouter(LeaveRouter, <<"leave">>, "direct")
    \o HealthRoutes \o AssetsMount \o <<RootRoute>>

\* As AppRoutes, the fallback registered before the routers.
AppRoutesFallbackFirst == DocsRoutes \o <<SpaFallback>> \o RoutesBeforeFallback

\* main.py 27, 115-170: app.routes, in registration order.
AppRoutes == DocsRoutes \o RoutesBeforeFallback \o <<SpaFallback>>

\* Starlette's path regex of a route.
RECURSIVE PathMatches(_, _)
PathMatches(pattern, path) ==
    IF pattern = <<>> THEN path = <<>>
    ELSE IF Head(pattern) = "{path}" THEN path # <<>>
    ELSE IF path = <<>> THEN FALSE
    ELSE IF Head(pattern) = "{}"
         THEN Head(path) # "" /\ PathMatches(Tail(pattern), Tail(path))
         ELSE Head(pattern) = Head(path) /\ PathMatches(Tail(pattern), Tail(path))

\* Route.matches: FULL when path and method fit, PARTIAL when only the path.
Match(r, req) ==
    IF ~PathMatches(r.pattern, req.path) THEN "NONE"
    ELSE IF req.method \in r.methods THEN "FULL" ELSE "PARTIAL"

Firsts(table, req, kind) == {i \in 1..Len(table) : Match(table[i], req) = kind}
Min(S) == CHOOSE i \in S : \A j \in S : i <= j

NotFound == [router |-> "none", name |-> "not_found", mount |-> "app", status |-> 404]
Served(r, status) ==
    [router |-> r.router, name |-> r.name, mount |-> r.mount, status |-> status]

\* Router.app: the first route that matches fully handles the request; with
\* none, the first that matches the path answers 405; with none, 404.
Dispatch(table, req) ==
    IF Firsts(table, req, "FULL") # {}
    THEN Served(table[Min(Firsts(table, req, "FULL"))], 200)
    ELSE IF Firsts(table, req, "PARTIAL") # {}
    THEN Served(table[Min(Firsts(table, req, "PARTIAL"))], 405)
    ELSE NotFound

(***************************************************************************)
(* Texts, requests, responses.                                             *)
(***************************************************************************)
NoText == [set |-> FALSE, v |-> <<>>]
Text(v) == [set |-> TRUE, v |-> v]
\* Python truth of an Optional[str]
TruthyText(t) == t.set /\ t.v # <<>>

\* A decoder that leaves every escape as it is.
UnquoteNothing(v) == v

\* urllib.parse.unquote: every percent escape becomes its character.
Decode(piece) ==
    CASE piece = "%40" -> "@"
      [] piece = "%3A" -> ":"
      [] piece = "%2F" -> "/"
      [] OTHER -> piece
Unquote(v) == [i \in 1..Len(v) |-> Decode(v[i])]

Star == <<"*">>
SetHeaderValue(h, name, v) == (name :> v) @@ h
NoHeaders == [n \in {} |-> <<>>]
Response(status) == [status |-> status, headers |-> NoHeaders]

StartsWithLeave(path) == Len(path) >= 2 /\ path[1] = "leave"

AmpHeaderName == "AMP-Access-Control-Allow-Source-Origin"

\* main.py 39-62: add_amp_cors_headers, applied to the call_next_response response.
add_amp_cors_headers(req, downstream) ==
    IF StartsWithLeave(req.path)
    THEN LET h0 == downstream.headers
             h1 == IF TruthyText(req.amp_source_origin)
                   THEN SetHeaderValue(h0, AmpHeaderName, Unquote(req.amp_source_origin.v))
                   ELSE SetHeaderValue(h0, AmpHeaderName,
                                       IF req.origin.set THEN req.origin.v ELSE Star)
             h2 == SetHeaderValue(h1, "Access-Control-Allow-Origin", Star)
             h3 == SetHeaderValue(h2, "Access-Control-Allow-Methods",
                                  <<"GET, POST, PUT, DELETE, OPTIONS">>)
             h4 == SetHeaderValue(h3, "Access-Control-Allow-Headers", Star)
             h5 == SetHeaderValue(h4, "Access-Control-Expose-Headers", Star)
             h6 == SetHeaderValue(h5, "Access-Control-Allow-Credentials", <<"true">>)
         IN  [downstream EXCEPT !.headers = h6]
    ELSE downstream

\* main.py 70-90: the origins CORSMiddleware allows.
AllowedOrigins ==
    {<<"http://localhost:3000">>, <<"http://localhost:5173">>,
     <<"http://127.0.0.1:5173">>, <<"http://127.0.0.1:3000">>,
     <<"http://localhost:8000">>, <<"https://mail.google.com">>,
     <<"https://gmail.com">>, <<"https://amp.gmail.dev">>,
     <<"https://accounts.google.com">>, <<"https://googlemail.com">>}

ExposedHeaders ==
    <<"AMP-Access-Control-Allow-Source-Origin, AMP-CORS-REQUEST-HEADERS, Access-Control-Expose-Headers, *">>

\* main.py 92-113: CORSMiddleware on a request that is not a preflight.  With
\* no Origin header it passes the response on; otherwise it sets its own
\* credentials and expose headers and, for an allowed origin, the origin.
CorsSimpleResponse(req, inner) ==
    IF ~req.origin.set THEN inner
    ELSE LET h1 == SetHeaderValue(inner.headers, "Access-Control-Allow-Credentials",
                                  <<"true">>)
             h2 == SetHeaderValue(h1, "Access-Control-Expose-Headers", ExposedHeaders)
             h3 == IF req.origin.v \in AllowedOrigins
                   THEN SetHeaderValue(
                            SetHeaderValue(h2, "Access-Control-Allow-Origin", req.origin.v),
                            "Vary", <<"Origin">>)
                   ELSE h2
         IN  [inner EXCEPT !.headers = h3]

\* CORSMiddleware answers a preflight itself.
IsPreflight(req) == req.origin.set /\ req.method = "OPTIONS" /\ req.preflight
CorsPreflightResponse(req) ==
    LET ok == req.origin.v \in AllowedOrigins
        h1 == SetHeaderValue(NoHeaders, "Access-Control-Allow-Methods",
                             <<"GET, POST, PUT, DELETE, OPTIONS">>)
        h2 == SetHeaderValue(h1, "Access-Control-Allow-Credentials", <<"true">>)
        h3 == IF ok THEN SetHeaderValue(h2, "Access-Control-Allow-Origin", req.origin.v)
              ELSE h2
    IN  [status |-> IF ok THEN 200 ELSE 400, headers |-> h3]

Methods == {"GET", "POST", "OPTIONS"}
Paths ==
    {<<"">>, <<"health">>, <<"api", "health">>, <<"debug", "routes">>,
     <<"auth", "login">>, <<"api", "auth", "login">>, <<"auth", "me">>,
     <<"api", "auth", "me">>,
     <<"leave", "1", "approve">>, <<"api", "leave", "1", "approve">>,
     <<"leave", "1", "reject">>, <<"api", "leave", "1", "reject">>,
     <<"leave", "">>, <<"api", "leave", "">>, <<"leave">>, <<"leaves", "1">>,
     <<"assets", "app.js">>, <<"dashboard">>, <<"docs">>}
AmpSourceOrigins ==
    {NoText, Text(<<>>), Text(<<"manager", "@", "example.com">>),
     Text(<<"manager", "%40", "example.com">>)}
Origins == {NoText, Text(<<"https://mail.google.com">>), Text(<<"https://evil.example">>)}

NoRequest ==
    [method |-> "none", path |-> <<>>, amp_source_origin |-> NoText,
     origin |-> NoText, preflight |-> FALSE]
NoHandler == [router |-> "none", name |-> "none", mount |-> "app", status |-> 0]
Preflight == [router |-> "none", name |-> "cors_preflight", mount |-> "app", status |-> 0]

\* What an endpoint answers: its status and the headers of its own, among
\* which an endpoint of the routers may have set a CORS header itself.
EndpointResponse(h) ==
    [status |-> h.status,
     headers |-> IF h.router = "auth"
                 THEN SetHeaderValue(
                          SetHeaderValue(NoHeaders, "content-type", <<"application/json">>),
                          "Access-Control-Allow-Origin", <<"http://localhost:5173">>)
                 ELSE SetHeaderValue(NoHeaders, "content-type", <<"text/html">>)]

notHttp == <<appVars, cfgVars, mailVars, tokenVars>>

\* A request arrives at the outermost middleware.
ReceiveRequest ==
    /\ stage = "idle"
    /\ \E m \in Methods, p \in Paths, a \in AmpSourceOrigins, o \in Origins,
          f \in BOOLEAN :
          request' = [method |-> m, path |-> p, amp_source_origin |-> a,
                      origin |-> o, preflight |-> f]
    /\ stage' = "cors"
    /\ UNCHANGED <<handler, call_next_response, amp_response, response, notHttp>>

\* main.py 92: CORSMiddleware answers a preflight without calling the app.
CorsPreflight ==
    /\ stage = "cors" /\ IsPreflight(request)
    /\ handler' = Preflight
    /\ response' = CorsPreflightResponse(request)
    /\ stage' = "sent"
    /\ UNCHANGED <<request, call_next_response, amp_response, notHttp>>

\* main.py 41: call_next(request): the router picks the endpoint, whose
\* response comes back to add_amp_cors_headers.
CallNext ==
    /\ stage = "cors" /\ ~IsPreflight(request)
    /\ handler' = Dispatch(AppRoutes, request)
    /\ call_next_response' = EndpointResponse(handler')
    /\ stage' = "amp"
    /\ UNCHANGED <<request, amp_response, response, notHttp>>

\* main.py 43-62
AddAmpCorsHeaders ==
    /\ stage = "amp"
    /\ amp_response' = add_amp_cors_headers(request, call_next_response)
    /\ stage' = "simple"
    /\ UNCHANGED <<request, handler, call_next_response, response, notHttp>>

\* main.py 92: CORSMiddleware on the way out.
CorsSend ==
    /\ stage = "simple"
    /\ response' = CorsSimpleResponse(request, amp_response)
    /\ stage' = "sent"
    /\ UNCHANGED <<request, handler, call_next_response, amp_response, notHttp>>

\* The response is out; the application keeps nothing of the request.
RequestDone ==
    /\ stage = "sent"
    /\ stage' = "idle"
    /\ request' = NoRequest /\ handler' = NoHandler
    /\ call_next_response' = Response(0)
    /\ amp_response' = Response(0) /\ response' = Response(0)
    /\ UNCHANGED notHttp

NextHttp ==
    \/ ReceiveRequest \/ CorsPreflight \/ CallNext
    \/ AddAmpCorsHeaders \/ CorsSend \/ RequestDone

InitHttp ==
    /\ auth_routes \in SUBSET Range(AuthUniverse)
    /\ leave_routes \in SUBSET Range(LeaveUniverse)
    /\ static_dir \in BOOLEAN
    /\ stage = "idle"
    /\ request = NoRequest /\ handler = NoHandler
    /\ call_next_response = Response(0)
    /\ amp_response = Response(0) /\ response = Response(0)

InitHttpSpec == InitTokenCfg /\ InitCall /\ InitToken /\ InitHttp
SpecHttp == InitHttpSpec /\ [][NextHttp]_vars

(***************************************************************************)
(* Properties of the two senders (checked under SpecMail).                 *)
(***************************************************************************)
Missing(s) == s = Unset \/ s = ""
AnySettingMissing == Missing(EMAIL_HOST) \/ Missing(EMAIL_USER) \/ Missing(EMAIL_PASS)
\* The tokens and the database reads of the running call.
MyTokens == SelectSeq(tokens, LAMBDA t : t.call = calls)
Failed(log) == \E i \in 1..Len(log) : ~log[i].ok
Sent(log) == \E i \in 1..Len(log) : log[i].op = "send_message" /\ log[i].ok
Handed(log, m) == \E i \in 1..Len(log) :
                     log[i].op = "send_message" /\ log[i].ok /\ log[i].msg = m

\* C1: send_leave_action_email never propagates an exception: whatever step
\* fails after entry, the call ends by returning to its caller.
C1_LeaveNeverRaises ==
    fn = "leave" =>
        /\ result.kind # "raised"
        /\ (pc = "done" => result.kind \in {"None", "error"})
        /\ (pc = "done" /\ exc # "none" => result.kind = "None")

\* C1 witness: a call in which a step failed has returned normally.
C1_Witness ==
    fn = "leave" /\ pc = "done" /\ exc \in {"PyMongoError", "KeyError", "TokenError"}
    /\ result.kind = "None"

\* C2: once the render step is over, the inline fallback is used for both
\* contents exactly when there is no template environment, or rendering
\* raised, or the AMP text is empty, shorter than 100 characters or still
\* holds "{{ leave."; otherwise both rendered templates are used.  Both
\* contents are defined either way and the call goes on to build the message.
C2_TemplateThenFallback ==
    (fn = "leave" /\ render_out.done) =>
        LET bad == \/ ~env
                   \/ render_out.raised
                   \/ render_out.amp.len = 0
                   \/ render_out.amp.len < 100
                   \/ render_out.amp.unrendered
            fb == get_fallback_email_content(leave_dict, backend_url)
        IN  /\ bad => (amp_content = fb.amp /\ html_content = fb.html)
            /\ ~bad => (amp_content = render_out.amp /\ html_content = render_out.html)
            /\ amp_content # NoContent /\ html_content # NoContent
            /\ (pc = "except" => exc \in {"KeyError", "TypeError"})

\* C2 witness: the templates rendered, the AMP text was too short, and the
\* call went on with the fallback.
C2_Witness ==
    /\ fn = "leave" /\ pc = "build" /\ env /\ ~render_out.raised
    /\ render_out.amp.len = 99 /\ amp_content.src = "fallback"

\* C2 witness of the other side: an AMP text of exactly 100 characters is kept.
C2_WitnessKept ==
    /\ fn = "leave" /\ pc = "build" /\ render_out.amp.len = 100
    /\ amp_content.src = "template"

\* C9: with EMAIL_HOST, EMAIL_USER or EMAIL_PASS unset or empty the call
\* returns {"error": ...} and has done nothing else: no database read, no
\* token, no SMTP session, no message, and the dict as it was passed.
C9_IncompleteConfig ==
    (fn = "leave" /\ AnySettingMissing) =>
        /\ pc \in {"check_config", "done"}
        /\ pc = "done" => /\ result.kind = "error"
                          /\ result.host = ~Missing(EMAIL_HOST)
                          /\ result.user = ~Missing(EMAIL_USER)
                          /\ result.pass = ~Missing(EMAIL_PASS)
        /\ db_reads = 0
        /\ MyTokens = <<>>
        /\ server = <<>>
        /\ msg = NoMsg
        /\ leave_dict = arg

\* C9 witness: such a call has returned, the dict it was given holding an '_id'.
C9_Witness ==
    /\ fn = "leave" /\ pc = "done" /\ Missing(EMAIL_PASS) /\ ~Missing(EMAIL_HOST)
    /\ Has(arg, "_id") /\ result.kind = "error"

\* C10: send_password_reset_otp raises, with no SMTP session opened, when a
\* setting is missing; a failed SMTP step is raised to the caller; and it
\* returns normally only when send_message has taken the message.
C10_OtpReportsFailure ==
    fn = "otp" =>
        /\ AnySettingMissing => (server = <<>> /\ (pc = "done" => result.kind = "raised"))
        /\ (pc = "done" /\ Failed(server)) => result.kind = "raised"
        /\ pc = "return" => Handed(server, msg)
        /\ (pc = "done" /\ result.kind = "None") => Sent(server)
        /\ result.kind \in {"pending", "None", "raised"}

\* C10 witness: the OTP call returned after the relay took a two-part message.
C10_Witness ==
    /\ fn = "otp" /\ pc = "done" /\ result.kind = "None"
    /\ \E i \in 1..Len(server) :
          /\ server[i].op = "send_message" /\ server[i].ok
          /\ PartTypes(server[i].msg) = <<"text/plain", "text/html">>

\* C10 witness of the failure side: login failed and the call raised.
C10_WitnessRaised ==
    /\ fn = "otp" /\ pc = "done" /\ result.kind = "raised"
    /\ Ops(server) = <<"connect", "starttls", "login", "quit">>


ThreeParts == {<<"text/plain", "text/html", "text/x-amp-html">>,
               <<"text/plain", "text/html", "text/html">>}
\* Failures of what the call depends on: the database, the dict's keys, the
\* token generator, the mail relay.
OutsideFailures == {"ImportError", "PyMongoError", "KeyError", "TokenError",
                    "SMTPException"}

\* C3: the message send_leave_action_email hands to the SMTP server has three
\* body parts, plain text, HTML and AMP in this order; a call in which the
\* settings are complete and nothing it depends on fails hands such a message.
C3_ThreePartMessageHanded ==
    fn = "leave" =>
        /\ \A i \in 1..Len(server) :
              (server[i].op = "send_message" /\ server[i].ok)
                  => PartTypes(server[i].msg) \in ThreeParts
        /\ (pc = "done" /\ ~AnySettingMissing /\ exc \notin OutsideFailures)
              => \E i \in 1..Len(server) :
                    /\ server[i].op = "send_message" /\ server[i].ok
                    /\ PartTypes(server[i].msg) \in ThreeParts

Offers(body, action, token) ==
    \E i \in 1..Len(body.links) :
        body.links[i].action = action /\ body.links[i].token = token
ComposedBodies == {b \in {text_content, amp_content, html_content} :
                      b.src \in {"inline", "fallback"}}

\* C4: every body the code itself composes for the leave mail (the plain
\* text, the inline fallback HTML and AMP) offers an approve link with the
\* approval token and a reject link with the rejection token.
C4_BothLinksInEveryBody ==
    fn = "leave" =>
        \A b \in ComposedBodies :
            /\ Offers(b, "approve", approval_token)
            /\ Offers(b, "reject", rejection_token)

\* C5 as stated: a call that passes the configuration check has, when it
\* ends, generated exactly two tokens.
C5_ExactlyTwoTokens ==
    (fn = "leave" /\ ~AnySettingMissing /\ pc = "done") => Len(MyTokens) = 2

LinkBound(l, t) == l.token = TokenValue(t.id) /\ l.leave = t.leave_id

\* C5, amended: a call generates at most two tokens, the approve token
\* first: none when a step before token generation fails, only the approve
\* token when the second generation fails, and otherwise exactly two, for
\* the same leave id and manager id, valid 24 hours.  In the bodies the code
\* composes every approve link carries the approve token and every reject
\* link the reject token, each with the leave id its token was generated for.
C5_TokenBinding ==
    fn = "leave" =>
        LET mine == MyTokens
        IN  /\ Len(mine) <= 2
            /\ pc \in {"check_config", "db_read", "gen_approve"} => mine = <<>>
            /\ Len(mine) >= 1 =>
                  /\ mine[1].action = "approve"
                  /\ mine[1].hours = 24
                  /\ mine[1].leave_id = Str(leave_dict["_id"])
                  /\ mine[1].manager_id = Str(leave_dict["manager_id"])
                  /\ pc # "done" => approval_token = TokenValue(mine[1].id)
            /\ Len(mine) = 1 => (pc = "gen_reject" \/ exc = "TokenError")
            /\ Len(mine) = 2 =>
                  /\ mine[2].action = "reject"
                  /\ mine[2].hours = 24
                  /\ mine[2].leave_id = mine[1].leave_id
                  /\ mine[2].manager_id = mine[1].manager_id
                  /\ mine[2].id # mine[1].id
                  /\ pc # "done" => rejection_token = TokenValue(mine[2].id)
            /\ pc \in {"render", "build"} => Len(mine) = 2
            /\ \A b \in ComposedBodies : \A i \in 1..Len(b.links) :
                  /\ Len(mine) = 2
                  /\ b.links[i].action = "approve" => LinkBound(b.links[i], mine[1])
                  /\ b.links[i].action = "reject" => LinkBound(b.links[i], mine[2])
                  /\ b.links[i].action \in {"approve", "reject"}

\* C5 witness: both tokens were generated, after the stored leave named
\* another manager than the dict did, and the inline fallback was composed.
C5_Witness ==
    /\ fn = "leave" /\ Len(MyTokens) = 2 /\ amp_content.src = "fallback"
    /\ text_content.src = "inline"
    /\ Has(arg, "manager_id") /\ MyTokens[1].manager_id # arg["manager_id"]


(***************************************************************************)
(* Properties of the tokens (checked under SpecToken).                     *)
(***************************************************************************)
\* C6: a token changes a leave at most once, and only when it was issued
\* less than 24 hours before: once consumed, or once 24 hours old, a visit
\* with it changes nothing, however often the mail for a leave was sent.
C6_SingleUseTimeBoxed ==
    /\ DOMAIN consumed \subseteq 1..Len(tokens)
    /\ \A id \in DOMAIN consumed :
          /\ consumed[id].n = 1
          /\ consumed[id].in_time
    /\ last_visit = "changed" => consumed # <<>>

\* C6 witness: after the mail had been sent twice, a visit presented a token
\* that had already changed a leave, and was refused.
C6_Witness ==
    /\ last_visit = "refused_used"
    /\ Len(tokens) = 4
    /\ \E id \in DOMAIN consumed : consumed[id].n = 1

\* C6 witness of the time box: tokens were issued, 24 hours passed, a visit
\* was refused and no token has changed anything.
C6_WitnessExpired ==
    /\ last_visit = "refused_expired"
    /\ consumed = <<>>
    /\ \E id \in 1..Len(tokens) : clock >= tokens[id].issued_at + 24


(***************************************************************************)
(* Properties of the HTTP application (checked under SpecHttp).            *)
(***************************************************************************)
AmpCorsHeaders ==
    {AmpHeaderName, "Access-Control-Allow-Origin", "Access-Control-Allow-Methods",
     "Access-Control-Allow-Headers", "Access-Control-Expose-Headers",
     "Access-Control-Allow-Credentials"}

\* C7: every response to a request a leave-router route served, under the
\* /leave mount or the /api/leave mount, carries the AMP source-origin header
\* and the Access-Control-Allow-* headers of add_amp_cors_headers.
C7_LeaveResponsesCarryAmpHeaders ==
    (stage = "sent" /\ handler.router = "leave" /\ handler.status = 200) =>
        AmpCorsHeaders \subseteq DOMAIN response.headers

\* The routes the claim names: all but the documentation routes, the assets
\* mount and the fallback itself.
ClaimedRoutes ==
    {r \in Range(RoutesBeforeFallback) : r.name # "assets"}

\* C8 as stated: no GET request whose path matches a claimed route is
\* handled by spa_fallback.
C8_PathMatchNeverFallsBack ==
    (stage = "sent" /\ request.method = "GET"
        /\ \E r \in ClaimedRoutes : PathMatches(r.pattern, request.path))
    => handler.name # "spa_fallback"

\* C8, amended: both routers are reachable with and without the /api prefix
\* and the fallback is registered last, so no GET request whose path matches
\* /health, /api/health, /debug/routes, "/" or a GET route of the auth or
\* leave router (under either prefix) is handled by spa_fallback: it is
\* handled by a route of the router whose route it matches.
C8_GetRoutesNeverFallBack ==
    /\ \A r \in ClaimedRoutes :
          (stage = "sent" /\ request.method = "GET" /\ "GET" \in r.methods
              /\ PathMatches(r.pattern, request.path))
          => (handler.name # "spa_fallback" /\ handler.router = r.router)
    /\ \A i \in 1..Len(LeaveRouter) :
          /\ \E r \in ClaimedRoutes :
                r.mount = "api" /\ r.pattern = <<"api", "leave">> \o LeaveRouter[i].pattern
          /\ \E r \in ClaimedRoutes :
                r.mount = "direct" /\ r.pattern = <<"leave">> \o LeaveRouter[i].pattern
    /\ \A i \in 1..Len(AuthRouter) :
          /\ \E r \in ClaimedRoutes :
                r.mount = "api" /\ r.pattern = <<"api", "auth">> \o AuthRouter[i].pattern
          /\ \E r \in ClaimedRoutes :
                r.mount = "direct" /\ r.pattern = <<"auth">> \o AuthRouter[i].pattern
    /\ AppRoutes[Len(AppRoutes)].name = "spa_fallback"

\* C8 witness: the GET request of an emailed link, under /api, was served by
\* the leave router although the fallback matches its path too.
C8_Witness ==
    /\ stage = "sent"
    /\ request.method = "GET" /\ request.path = <<"api", "leave", "1", "approve">>
    /\ PathMatches(SpaFallback.pattern, request.path)
    /\ handler.router = "leave" /\ handler.mount = "api" /\ handler.status = 200

(***************************************************************************)
(* The value and the frame of add_amp_cors_headers, on the response the    *)
(* middleware returns (amp_response), before CORSMiddleware sees it.       *)
(***************************************************************************)
MiddlewareReturned == stage \in {"simple", "sent"} /\ handler # Preflight

Header(r, name) == IF name \in DOMAIN r.headers THEN Text(r.headers[name]) ELSE NoText

\* C11: for a path that starts with "/leave/" the source-origin header is
\* the URL-decoded __amp_source_origin parameter when that is present and
\* not empty, else the Origin header, else "*"; Access-Control-Allow-Origin
\* is "*" and Access-Control-Allow-Credentials is "true".  For any other
\* path the middleware returns the call_next_response response as it got it.
C11_AmpHeaderValueAndFrame ==
    MiddlewareReturned =>
        IF StartsWithLeave(request.path)
        THEN /\ Header(amp_response, AmpHeaderName) =
                   IF request.amp_source_origin.set /\ request.amp_source_origin.v # <<>>
                   THEN Text(Unquote(request.amp_source_origin.v))
                   ELSE IF request.origin.set THEN request.origin ELSE Text(Star)
             /\ request.amp_source_origin = Text(<<"manager", "%40", "example.com">>)
                   => Header(amp_response, AmpHeaderName) =
                          Text(<<"manager", "@", "example.com">>)
             /\ Header(amp_response, "Access-Control-Allow-Origin") = Text(Star)
             /\ Header(amp_response, "Access-Control-Allow-Credentials") = Text(<<"true">>)
             /\ amp_response.status = call_next_response.status
        ELSE amp_response = call_next_response

\* C11 witness: an encoded parameter was decoded into the header of a
\* response under /leave/, although the request had an Origin header too.
C11_Witness ==
    /\ MiddlewareReturned
    /\ StartsWithLeave(request.path)
    /\ request.amp_source_origin = Text(<<"manager", "%40", "example.com">>)
    /\ request.origin.set
    /\ Header(amp_response, AmpHeaderName) = Text(<<"manager", "@", "example.com">>)

\* C11 witness of the frame: a response of the auth router, which had a
\* CORS header of its own, came back from the middleware unchanged.
C11_WitnessFrame ==
    /\ MiddlewareReturned
    /\ ~StartsWithLeave(request.path)
    /\ handler.router = "auth" /\ handler.mount = "api"
    /\ "Access-Control-Allow-Origin" \in DOMAIN call_next_response.headers
    /\ amp_response = call_next_response

(***************************************************************************)
(* The order of the steps of send_leave_action_email (SpecMail).           *)
(***************************************************************************)
SmtpOrder == <<"connect", "starttls", "login", "send_message">>
Steps(log) == SelectSeq(log, LAMBDA ev : ev.op # "quit")
BothTokens ==
    /\ Len(MyTokens) = 2
    /\ MyTokens[1].action = "approve" /\ MyTokens[2].action = "reject"

\* The part of C12 that is about what comes before what: the configuration
\* check before any database read or token; both tokens before the SMTP
\* session; the SMTP steps in the order connect, starttls, login,
\* send_message, each after the success of the one before; a failed SMTP
\* step with both tokens issued and nothing sent.
C12_OrderOfSteps ==
    /\ (fn = "leave" /\ pc = "check_config") => (db_reads = 0 /\ MyTokens = <<>>)
    /\ (fn = "leave" /\ result.kind = "error") => (db_reads = 0 /\ MyTokens = <<>>)
    /\ (fn = "leave" /\ server # <<>>) => BothTokens
    /\ Len(Steps(server)) <= Len(SmtpOrder)
    /\ \A i \in 1..Len(Steps(server)) :
          /\ Steps(server)[i].op = SmtpOrder[i]
          /\ i < Len(Steps(server)) => Steps(server)[i].ok
    /\ (fn = "leave" /\ Failed(server)) => (BothTokens /\ ~Sent(server))

\* C12: the steps of send_leave_action_email run in the order configuration
\* check, database read, the two tokens, the three bodies, then the SMTP
\* session (connect, starttls, login, send_message): a call that has issued
\* both tokens and composed its bodies from a dict with the manager's
\* address goes on to open the SMTP session, where alone it can then fail.
C12_StepOrderThroughSmtp ==
    /\ C12_OrderOfSteps
    /\ (fn = "leave" /\ pc = "done" /\ BothTokens /\ exc # "KeyError")
          => server # <<>>

=============================================================================
